---- MODULE Spec2Model ----
(***************************************************************************)
(* arv-put (sdk/python/arvados/commands/put.py): the resumable upload      *)
(* command, its ResumeCache (a lock-protected state file replaced by       *)
(* temp-file-plus-rename) and ArvPutCollectionWriter (the upload session). *)
(* Several processes run main() on the same cache key.  The file system is *)
(* modelled by inodes: the cache path names one inode, every mkstemp name  *)
(* names one, flock locks belong to inodes, and data written through a     *)
(* Python file object sits in that object's stdio buffer until the buffer  *)
(* fills, the object is closed or the process exits normally.              *)
(***************************************************************************)
EXTENDS Integers, Sequences, FiniteSets, TLC

VARIABLES
    env,         \* what the environment does in this behaviour: procs that
                 \*   start invocations, how many (runs), whether system
                 \*   calls of save fail (faults), whether processes are
                 \*   killed (kills), how deep signals nest (nest), which
                 \*   signals arrive (signals), the argument lists (args)
                 \*   and the cache files found at the start (files)
    paths,       \* args.paths of every invocation on this cache key
    pathIno,     \* inode named by the cache path (0: no such file)
    tmpNames,    \* inodes that still have a mkstemp name in CACHE_DIR
    disk,        \* inode -> tokens that reached the file
    intended,    \* inode -> tokens handed to json.dump for it (history)
    lockOwner,   \* inode -> process holding the flock (0: unlocked)
    proc,        \* process -> pc: position in main(); resume: args.resume;
                 \*   restarted: restart() has run; handlers: "orig" or "ours"
                 \*   for CAUGHT_SIGNALS; status: exit status; err: exception
                 \*   that ended it; sigcode: of the innermost signal_handler
    cache_file,  \* process -> ResumeCache.cache_file (inode, stdio buffer)
    frames,      \* process -> stack of active ResumeCache.save calls
    writer,      \* process -> bytes_written, seen_inputs (_seen_inputs),
                 \*   data_buffer_len (_data_buffer_len), idx: position of
                 \*   the loop over args.paths
    inv,         \* args: the arguments of two invocations of arv-put; key:
                 \*   the cache key make_path has derived for each
    hist,        \* process -> confirmed: bytes the backend took; handed:
                 \*   inputs given to the external writer; resumed: the
                 \*   session from_cache restored; did: cache operations
                 \*   performed (history of this invocation)
    runs         \* invocations started so far

fsvars == <<pathIno, tmpNames, disk, intended, lockOwner>>
vars   == <<inv, env, paths, fsvars, proc, cache_file, frames, writer, hist, runs>>

\* ------------------------------------------------------------- bounds
MaxRuns  == 3      \* invocations, one after the other, of one process
MaxIno   == 4      \* inodes in CACHE_DIR at one time
MaxNest  == 2      \* signal handlers active at one time
BufSize  == 4      \* tokens a stdio buffer holds
MaxData  == 2      \* inputs the external writer buffers before it must flush
MaxPaths == 2      \* paths on the command line of a key derivation

Procs == {1, 2}
Ino   == 1..MaxIno

CAUGHT_SIGNALS == {2, 3, 15}

\* ---------------------------------------------------- Python 2 strings
\* A str (bytes) or a unicode object.  json.load returns unicode for every
\* string; a str and a unicode compare equal only when the bytes are ASCII.
Str(s) == [s |-> s, u |-> FALSE]
Uni(s) == [s |-> s, u |-> TRUE]
NonAscii == {"caf(e9).txt"}

PyEq(a, b) == a.s = b.s /\ (a.u = b.u \/ a.s \notin NonAscii)
KeyEq(k1, k2) == \A i \in 1..3 : PyEq(k1[i], k2[i])
KeyIn(key, seen) == \E i \in 1..Len(seen) : KeyEq(key, seen[i])

isdir(path) == path = "data"
basename(path) == path

ArgLists == { <<"data", "a.txt">>, <<"caf(e9).txt">>, <<"a.txt", "a.txt">> }

\* ------------------------------------------- ResumeCache.make_path
\* Byte strings are sequences of characters; Rank is the byte order.
Rank(c) ==
    CASE c = "-" -> 1 [] c = "/" -> 2 [] c = "0" -> 3 [] c = "1" -> 4
      [] c = "a" -> 5 [] c = "b" -> 6 [] c = "h" -> 7 [] c = "l" -> 8

\* The files of the machine: /a is a directory, /a/b a directory in it, /b
\* a file, /l a symbolic link to /a.
GivenPaths == { <<"/", "a">>, <<"/", "b">>, <<"/", "a", "/", "b">>, <<"/", "l">> }
realpath(path) == IF path = <<"/", "l">> THEN <<"/", "a">> ELSE path
path_isdir(path) == realpath(path) \in { <<"/", "a">>, <<"/", "a", "/", "b">> }

\* ARVADOS_API_HOST, --max-manifest-depth and --filename values.
API_HOST == <<"h">>
Depths == {-2, -1, 0, 1}
Filenames == { <<>>, <<"b">>, <<"-", "1">> }

\* str(n) for the depths above.
str(n) == IF n = -1 THEN <<"-", "1">> ELSE IF n = 0 THEN <<"0">> ELSE <<"1">>
max(m, n) == IF m >= n THEN m ELSE n

\* x < y for byte strings.
RECURSIVE Less(_, _)
Less(x, y) ==
    IF y = <<>> THEN FALSE
    ELSE IF x = <<>> THEN TRUE
    ELSE IF Head(x) # Head(y) THEN Rank(Head(x)) < Rank(Head(y))
    ELSE Less(Tail(x), Tail(y))

\* sorted(l), by insertion.
RECURSIVE Insert(_, _)
Insert(x, l) ==
    IF l = <<>> THEN <<x>>
    ELSE IF Less(Head(l), x) THEN <<Head(l)>> \o Insert(x, Tail(l))
    ELSE <<x>> \o l

RECURSIVE sorted(_)
sorted(l) == IF l = <<>> THEN <<>> ELSE Insert(Head(l), sorted(Tail(l)))

\* ''.join(l)
RECURSIVE join(_)
join(l) == IF l = <<>> THEN <<>> ELSE Head(l) \o join(Tail(l))

\* The command lines parse_arguments accepts: --filename only with exactly
\* one path that is no directory (a filename of <<>> is no --filename).
Arguments ==
    { a \in [paths : UNION { [1..n -> GivenPaths] : n \in 1..MaxPaths },
             max_manifest_depth : Depths, filename : Filenames] :
        a.filename # <<>> => Len(a.paths) = 1 /\ ~path_isdir(a.paths[1]) }

\* make_path with the paths hashed in the order given.
make_path_unsorted(args) ==
    LET realpaths == [i \in 1..Len(args.paths) |-> realpath(args.paths[i])]
    IN  API_HOST \o join(realpaths)
          \o (IF \E i \in 1..Len(realpaths) : path_isdir(realpaths[i])
              THEN str(max(args.max_manifest_depth, -1))
              ELSE args.filename)

\* The bytes make_path feeds to md5 (the key is their digest; md5 is taken
\* to be injective).
make_path(args) ==
    LET realpaths == sorted([i \in 1..Len(args.paths) |-> realpath(args.paths[i])])
    IN  API_HOST \o join(realpaths)
          \o (IF \E i \in 1..Len(realpaths) : path_isdir(realpaths[i])
              THEN str(max(args.max_manifest_depth, -1))
              ELSE IF args.filename # <<>> THEN args.filename
              ELSE <<>>)

NoKey == <<>>
NoInvocations == [args |-> <<>>, key |-> <<>>]

\* ------------------------------------------------- the JSON state file
Tok(k, t, n, l) == [k |-> k, t |-> t, n |-> n, l |-> l]
Punct(k) == Tok(k, "", 0, <<>>)

KeyText(key) == <<key[1].s, key[2].s, key[3].s>>
KeyLoad(txt) == <<Uni(txt[1]), Uni(txt[2]), Uni(txt[3])>>

json_dump(state) ==
    << Punct("{"),
       Tok("_data_buffer", "string", state.data_buffer_len, <<>>),
       Tok("bytes_written", "number", state.bytes_written, <<>>),
       Tok("_seen_inputs", "array", 0,
           [i \in 1..Len(state.seen_inputs) |-> KeyText(state.seen_inputs[i])]),
       Punct("}") >>

json_load(c) ==
    IF Len(c) = 1 /\ c[1].k = "[]" THEN "list"
    ELSE IF /\ Len(c) >= 2
            /\ c[1].k = "{"
            /\ c[Len(c)].k = "}"
            /\ \A i \in 2..(Len(c) - 1) : c[i].t # ""
         THEN "dict"
         ELSE "ValueError"

HasField(c, name) == \E i \in 1..Len(c) : c[i].k = name
Field(c, name) == c[CHOOSE i \in 1..Len(c) : c[i].k = name]

\* What from_cache does with the tokens load() reads.
from_cache_outcome(c) ==
    IF json_load(c) = "ValueError" THEN "fresh"
    ELSE IF json_load(c) = "list" THEN "fresh"
    ELSE IF ~HasField(c, "_data_buffer") THEN "KeyError"
    ELSE IF Field(c, "_data_buffer").t # "string" THEN "fresh"
    ELSE "restore"

from_state(c) ==
    [ bytes_written   |-> Field(c, "bytes_written").n,
      data_buffer_len |-> Field(c, "_data_buffer").n,
      seen_inputs     |-> [i \in 1..Len(Field(c, "_seen_inputs").l) |->
                              KeyLoad(Field(c, "_seen_inputs").l[i])],
      idx             |-> 0 ]

dump_state(p) ==
    [ bytes_written   |-> writer[p].bytes_written,
      data_buffer_len |-> writer[p].data_buffer_len,
      seen_inputs     |-> writer[p].seen_inputs ]

\* Cache files this program did not write in the format above.
ForeignFiles ==
    { << Punct("garbage") >>,
      << Punct("[]") >>,
      << Punct("{"), Punct("}") >>,
      << Punct("{"), Tok("_data_buffer", "number", 0, <<>>),
         Tok("bytes_written", "number", 0, <<>>),
         Tok("_seen_inputs", "array", 0, <<>>), Punct("}") >>,
      << Punct("{"), Tok("_data_buffer", "string", 0, <<>>),
         Tok("bytes_written", "number", 1, <<>>),
         Tok("_seen_inputs", "array", 0, <<>>), Punct("}") >> }

\* ---------------------------------------------------------- processes
NoFile == [ino |-> 0, buf |-> <<>>]
NewProc == [pc |-> "idle", resume |-> TRUE, restarted |-> FALSE,
            handlers |-> "orig", status |-> 0, err |-> "", sigcode |-> 0]
\* ArvPutCollectionWriter.__init__: a brand-new session.
NewWriter == [bytes_written |-> 0, data_buffer_len |-> 0, seen_inputs |-> <<>>,
              idx |-> 0]
NewHist == [confirmed |-> 0, handed |-> <<>>, resumed |-> NewWriter, did |-> {}]

At(p, l) == proc[p].pc = l
Goto(p, l) == proc' = [proc EXCEPT ![p].pc = l]
Top(p) == frames[p][Len(frames[p])]
SetTop(p, f) == [frames EXCEPT ![p][Len(frames[p])] = f]
Running(p) == proc[p].pc \notin {"idle", "exited"}
InMain(p, l) == proc[p].pc = l /\ frames[p] = <<>>
InSave(p, l) == Running(p) /\ frames[p] # <<>> /\ Top(p).pc = l
Did(p, op) == hist' = [hist EXCEPT ![p].did = @ \cup {op}]

InUse(i) ==
    \/ i = pathIno
    \/ i \in tmpNames
    \/ \E q \in Procs : cache_file[q].ino = i
    \/ \E q \in Procs : \E k \in 1..Len(frames[q]) : frames[q][k].ino = i
FreeInos == {i \in Ino : ~InUse(i)}
NewIno == CHOOSE i \in FreeInos : \A j \in FreeInos : i <= j

\* An inode with no name and no open handle is gone.
Live(i) ==
    \/ i = pathIno'
    \/ i \in tmpNames'
    \/ \E q \in Procs : cache_file'[q].ino = i
    \/ \E q \in Procs : \E k \in 1..Len(frames'[q]) : frames'[q][k].ino = i
Scrub(f, none) == [i \in Ino |-> IF Live(i) THEN f[i] ELSE none]

\* The file system after pathIno', tmpNames', cache_file' and frames' are
\* set: d and l are the new contents and locks of the inodes that remain.
Files(d, l) ==
    /\ disk' = Scrub(d, <<>>)
    /\ intended' = Scrub(intended, <<>>)
    /\ lockOwner' = Scrub(l, 0)

\* close() of p's handle h: flush its stdio buffer, drop its flock.
Flush(d, h) == [i \in Ino |-> IF i = h.ino THEN d[i] \o h.buf ELSE d[i]]
Unlock(l, p, i) == [j \in Ino |-> IF j = i /\ l[j] = p THEN 0 ELSE l[j]]

\* The stdio buffer of process p's file object on inode i.
BufOf(p, i) ==
    IF cache_file[p].ino = i THEN cache_file[p].buf
    ELSE LET ks == {k \in 1..Len(frames[p]) : frames[p][k].ino = i}
         IN  IF ks = {} THEN <<>> ELSE frames[p][CHOOSE k \in ks : TRUE].buf

\* The process ends: the kernel closes its descriptors and drops its locks
\* and its memory is gone; a normal exit flushes the stdio buffers first, a
\* kill does not.
EndProcess(p, st, e, flush) ==
    /\ proc' = [proc EXCEPT ![p] = [NewProc EXCEPT !.pc = "exited", !.status = st,
                                       !.err = e, !.handlers = proc[p].handlers]]
    /\ cache_file' = [cache_file EXCEPT ![p] = NoFile]
    /\ frames' = [frames EXCEPT ![p] = <<>>]
    /\ writer' = [writer EXCEPT ![p] = NewWriter]
    /\ hist' = [hist EXCEPT ![p] = NewHist]
    /\ UNCHANGED <<inv, env, paths, pathIno, tmpNames, runs>>
    /\ Files([i \in Ino |-> IF flush THEN disk[i] \o BufOf(p, i) ELSE disk[i]],
             [i \in Ino |-> IF lockOwner[i] = p THEN 0 ELSE lockOwner[i]])

\* ------------------------------------------------------- ResumeCache
\* main(): one invocation of arv-put on this key begins.
main_start(p) ==
    /\ proc[p].pc \in {"idle", "exited"}
    /\ p \in env.procs
    /\ runs < env.runs
    /\ \A q \in Procs : q < p => proc[q].pc # "idle"
    /\ runs' = runs + 1
    /\ \E r \in BOOLEAN :
          proc' = [proc EXCEPT ![p] = [NewProc EXCEPT !.pc = "open", !.resume = r]]
    /\ UNCHANGED <<inv, env, paths, fsvars, cache_file, frames, writer, hist>>

\* ResumeCache.__init__: open(file_spec, 'a+') creates the file if it is missing.
cache_open(p) ==
    /\ InMain(p, "open")
    /\ IF pathIno = 0
       THEN FreeInos # {} /\ pathIno' = NewIno
       ELSE pathIno' = pathIno
    /\ cache_file' = [cache_file EXCEPT ![p] = [ino |-> pathIno', buf |-> <<>>]]
    /\ Goto(p, "lock")
    /\ UNCHANGED <<inv, env, paths, tmpNames, disk, intended, lockOwner, frames, writer, hist, runs>>

\* fcntl.flock(fileobj, LOCK_EX | LOCK_NB) succeeds when no open file holds
\* a lock on the inode.
lock_file(i) == lockOwner[i] = 0

\* ResumeCache.__init__: self._lock_file(self.cache_file).
cache_lock(p) ==
    /\ InMain(p, "lock")
    /\ LET i == cache_file[p].ino IN
       IF lock_file(i)
       THEN /\ lockOwner' = [lockOwner EXCEPT ![i] = p]
            /\ Goto(p, IF ~proc[p].resume /\ ~proc[p].restarted
                       THEN "restart" ELSE "from_cache")
       ELSE /\ lockOwner' = lockOwner
            /\ proc' = [proc EXCEPT ![p].pc = "conflict", ![p].err = "Conflict"]
    /\ UNCHANGED <<inv, env, paths, pathIno, tmpNames, disk, intended, cache_file, frames,
                   writer, hist, runs>>

\* main(): except ResumeCacheConflict: print ...; sys.exit(1).
main_conflict(p) ==
    /\ InMain(p, "conflict")
    /\ EndProcess(p, 1, "Conflict", TRUE)

\* destroy without the errno check: the OSError of unlinking a file that is
\* already gone propagates, and close() is not reached.
destroy_unlink_strict(p) ==
    /\ proc[p].pc \in {"restart", "destroy"} /\ frames[p] = <<>>
    /\ pathIno' = 0
    /\ IF pathIno = 0
       THEN proc' = [proc EXCEPT ![p].pc = "uncaught", ![p].err = "OSError"]
       ELSE Goto(p, IF At(p, "restart") THEN "restart_close" ELSE "destroy_close")
    /\ Did(p, "destroy")
    /\ UNCHANGED <<inv, env, paths, tmpNames, cache_file, frames, writer, runs>>
    /\ Files(disk, lockOwner)

\* ResumeCache.destroy: os.unlink(self.filename), ENOENT ignored.
destroy_unlink(p) ==
    /\ proc[p].pc \in {"restart", "destroy"} /\ frames[p] = <<>>
    /\ pathIno' = 0
    /\ Goto(p, IF At(p, "restart") THEN "restart_close" ELSE "destroy_close")
    /\ hist' = [hist EXCEPT ![p].did =
                   @ \cup {"destroy"}
                     \cup (IF pathIno = 0 /\ At(p, "destroy") THEN {"ENOENT"} ELSE {})]
    /\ UNCHANGED <<inv, env, paths, tmpNames, cache_file, frames, writer, runs>>
    /\ Files(disk, lockOwner)

\* ResumeCache.destroy: self.close(); restart() then runs __init__ again.
destroy_close(p) ==
    /\ proc[p].pc \in {"restart_close", "destroy_close"} /\ frames[p] = <<>>
    /\ cache_file' = [cache_file EXCEPT ![p] = NoFile]
    /\ proc' = [proc EXCEPT
                  ![p].pc = IF At(p, "restart_close") THEN "open" ELSE "return",
                  ![p].restarted = At(p, "restart_close")]
    /\ UNCHANGED <<inv, env, paths, pathIno, tmpNames, frames, writer, hist, runs>>
    /\ Files(Flush(disk, cache_file[p]), Unlock(lockOwner, p, cache_file[p].ino))

\* main() returns after resume_cache.destroy(): exit status 0.
main_return(p) ==
    /\ InMain(p, "return")
    /\ EndProcess(p, 0, "", TRUE)

\* An exception nothing catches: traceback, exit status 1.
main_uncaught(p) ==
    /\ InMain(p, "uncaught")
    /\ EndProcess(p, 1, proc[p].err, TRUE)

\* The process is killed (SIGKILL, power loss): nothing is flushed.
crash(p) ==
    /\ env.kills
    /\ Running(p)
    /\ EndProcess(p, 137, "killed", FALSE)

\* ------------------------------------------------- ResumeCache.save
\* cache_state with bytes_written left out of the saved state.
NewFrame_drops(p, handler) ==
    [pc |-> "mkstemp", ino |-> 0, buf |-> <<>>,
     data |-> json_dump([dump_state(p) EXCEPT !.bytes_written = 0]),
     handler |-> handler, failed |-> FALSE]

NewFrame(p, handler) ==
    [pc |-> "mkstemp", ino |-> 0, buf |-> <<>>,
     data |-> json_dump(dump_state(p)), handler |-> handler, failed |-> FALSE]

\* tempfile.mkstemp(dir=...); an OSError goes to the except clause.
save_mkstemp(p) ==
    /\ InSave(p, "mkstemp")
    /\ \/ /\ FreeInos # {}
          /\ tmpNames' = tmpNames \cup {NewIno}
          /\ frames' = SetTop(p, [Top(p) EXCEPT !.pc = "lock", !.ino = NewIno])
       \/ /\ env.faults
          /\ tmpNames' = tmpNames
          /\ frames' = SetTop(p, [Top(p) EXCEPT !.pc = "cleanup", !.failed = TRUE])
    /\ UNCHANGED <<inv, env, paths, pathIno, disk, intended, lockOwner, proc, cache_file,
                   writer, hist, runs>>

\* self._lock_file(new_cache_fd); an IOError becomes ResumeCacheConflict.
save_lock(p) ==
    /\ InSave(p, "lock")
    /\ \/ /\ lock_file(Top(p).ino)
          /\ lockOwner' = [lockOwner EXCEPT ![Top(p).ino] = p]
          /\ frames' = SetTop(p, [Top(p) EXCEPT !.pc = "write"])
       \/ /\ env.faults
          /\ lockOwner' = lockOwner
          /\ frames' = SetTop(p, [Top(p) EXCEPT !.pc = "cleanup", !.failed = TRUE])
    /\ UNCHANGED <<inv, env, paths, pathIno, tmpNames, disk, intended, proc, cache_file,
                   writer, hist, runs>>

\* How many of n tokens written through a stdio buffer of BufSize tokens
\* have reached the file when the last write returns.
Flushed(n) == IF n = 0 THEN 0 ELSE ((n - 1) \div BufSize) * BufSize

\* new_cache = os.fdopen(new_cache_fd, 'r+'); json.dump(data, new_cache).
save_write(p) ==
    /\ InSave(p, "write")
    /\ LET f == Top(p)
           n == Flushed(Len(f.data))
       IN  \/ /\ disk' = [disk EXCEPT ![f.ino] = SubSeq(f.data, 1, n)]
              /\ intended' = [intended EXCEPT ![f.ino] = f.data]
              /\ frames' = SetTop(p, [f EXCEPT !.pc = "rename",
                                        !.buf = SubSeq(f.data, n + 1, Len(f.data))])
           \/ /\ env.faults
              /\ disk' = disk
              /\ intended' = intended
              /\ frames' = SetTop(p, [f EXCEPT !.pc = "cleanup", !.failed = TRUE])
    /\ UNCHANGED <<inv, env, paths, pathIno, tmpNames, lockOwner, proc, cache_file,
                   writer, hist, runs>>

\* os.rename(new_cache_name, self.filename): the commit point.
save_rename(p) ==
    /\ InSave(p, "rename")
    /\ \/ /\ pathIno' = Top(p).ino
          /\ tmpNames' = tmpNames \ {Top(p).ino}
          /\ frames' = SetTop(p, [Top(p) EXCEPT !.pc = "swap"])
       \/ /\ env.faults
          /\ pathIno' = pathIno
          /\ tmpNames' = tmpNames
          /\ frames' = SetTop(p, [Top(p) EXCEPT !.pc = "cleanup", !.failed = TRUE])
    /\ UNCHANGED <<inv, env, paths, proc, cache_file, writer, hist, runs>>
    /\ Files(disk, lockOwner)

\* else: self.cache_file.close(); self.cache_file = new_cache.
save_swap(p) ==
    /\ InSave(p, "swap")
    /\ cache_file' = [cache_file EXCEPT ![p] = [ino |-> Top(p).ino, buf |-> Top(p).buf]]
    /\ frames' = SetTop(p, [Top(p) EXCEPT !.pc = "done", !.buf = <<>>])
    /\ UNCHANGED <<inv, env, paths, pathIno, tmpNames, proc, writer, hist, runs>>
    /\ Files(Flush(disk, cache_file[p]), Unlock(lockOwner, p, cache_file[p].ino))

\* save with "raise" at the end of its except clause: the error goes on to
\* the caller after the temp file is unlinked.
save_cleanup_raises(p) ==
    /\ InSave(p, "cleanup")
    /\ tmpNames' = tmpNames \ {Top(p).ino}
    /\ frames' = [frames EXCEPT ![p] = <<>>]
    /\ proc' = [proc EXCEPT ![p].pc = "uncaught", ![p].err = "IOError"]
    /\ UNCHANGED <<inv, env, paths, pathIno, cache_file, writer, hist, runs>>
    /\ Files(disk, lockOwner)

\* except (IOError, OSError, ResumeCacheConflict): os.unlink(new_cache_name),
\* unless mkstemp failed; the error is not raised again: save returns, and
\* its local new_cache is closed with it.
save_cleanup(p) ==
    /\ InSave(p, "cleanup")
    /\ tmpNames' = tmpNames \ {Top(p).ino}
    /\ frames' = SetTop(p, [Top(p) EXCEPT !.pc = "done", !.ino = 0, !.buf = <<>>])
    /\ UNCHANGED <<inv, env, paths, pathIno, proc, cache_file, writer, hist, runs>>
    /\ Files(disk, lockOwner)

\* ------------------------------------------- ArvPutCollectionWriter
\* writer = ArvPutCollectionWriter.from_cache(resume_cache, ...): cache.load()
\* reads the file through self.cache_file; TypeError, ValueError and
\* StaleWriterStateError give a new session, any other exception propagates.
from_cache(p) ==
    /\ InMain(p, "from_cache")
    /\ LET c == disk[cache_file[p].ino]
           o == from_cache_outcome(c)
           Session(w) == /\ Goto(p, "install")
                         /\ writer' = [writer EXCEPT ![p] = w]
                         /\ hist' = [hist EXCEPT ![p].did = @ \cup {"load"},
                                                 ![p].resumed = w]
       IN  \/ /\ o = "KeyError"
              /\ proc' = [proc EXCEPT ![p].pc = "uncaught", ![p].err = "KeyError"]
              /\ Did(p, "load")
              /\ writer' = writer
           \/ /\ o = "fresh"
              /\ Session(NewWriter)
           \/ /\ o = "restore"
              /\ Session(from_state(c))
           \/ /\ o = "restore"      \* from_state raises StaleWriterStateError
              /\ Session(NewWriter)
    /\ UNCHANGED <<inv, env, paths, fsvars, cache_file, frames, runs>>

\* orig_signal_handlers = {sigcode: signal.signal(sigcode, signal_handler) ...}
install_handlers(p) ==
    /\ InMain(p, "install")
    /\ proc' = [proc EXCEPT ![p].pc = "queued", ![p].handlers = "ours"]
    /\ UNCHANGED <<inv, env, paths, fsvars, cache_file, frames, writer, hist, runs>>

\* writer.do_queued_work() returns.
do_queued_work(p) ==
    /\ InMain(p, "queued")
    /\ Goto(p, "loop")
    /\ writer' = [writer EXCEPT ![p].idx = 1]
    /\ UNCHANGED <<inv, env, paths, fsvars, cache_file, frames, hist, runs>>

\* _record_new_input: key in self._seen_inputs ? False : append, True.
record_new_input(p, key) == ~KeyIn(key, writer[p].seen_inputs)

\* One call of write_file / write_directory_tree with this key: the external
\* writer gets the input only when _record_new_input accepted it.
write_input(p, key, ext) ==
    IF record_new_input(p, key)
    THEN /\ writer' = [writer EXCEPT ![p].seen_inputs = Append(@, key)]
         /\ hist' = [hist EXCEPT ![p].handed = Append(@, key),
                                 ![p].did = @ \cup {"stream"}]
         /\ Goto(p, ext)
    ELSE /\ writer' = [writer EXCEPT ![p].idx = @ + 1]
         /\ hist' = hist
         /\ Goto(p, "loop")

\* for path in args.paths: if os.path.isdir(path): writer.write_directory_tree(...)
write_directory_tree(p) ==
    /\ InMain(p, "loop") /\ writer[p].idx <= Len(paths)
    /\ isdir(paths[writer[p].idx])
    /\ write_input(p, <<Str("directory"), Str(paths[writer[p].idx]), Str(".")>>,
                   "ext_tree")
    /\ UNCHANGED <<inv, env, paths, fsvars, cache_file, frames, runs>>

\* else: writer.start_new_stream() returns.
start_new_stream(p) ==
    /\ InMain(p, "loop") /\ writer[p].idx <= Len(paths)
    /\ ~isdir(paths[writer[p].idx])
    /\ Goto(p, "write_file")
    /\ UNCHANGED <<inv, env, paths, fsvars, cache_file, frames, writer, hist, runs>>

\* writer.write_file(path, args.filename or os.path.basename(path))
write_file(p) ==
    /\ InMain(p, "write_file")
    /\ write_input(p, <<Str("file"), Str(paths[writer[p].idx]),
                        Str(basename(paths[writer[p].idx]))>>, "ext_file")
    /\ UNCHANGED <<inv, env, paths, fsvars, cache_file, frames, runs>>

\* The external writer has read the input into its data buffer and returns.
ext_done(p) ==
    /\ proc[p].pc \in {"ext_tree", "ext_file"} /\ frames[p] = <<>>
    /\ writer[p].data_buffer_len < MaxData
    /\ writer' = [writer EXCEPT ![p].data_buffer_len = @ + 1, ![p].idx = @ + 1]
    /\ Goto(p, "loop")
    /\ UNCHANGED <<inv, env, paths, fsvars, cache_file, frames, hist, runs>>

\* Where the external writer may call self.flush_data(), and the part of
\* main() inside try: ... except Exception.
FlushPoints == {"queued", "loop", "ext_tree", "ext_file", "output"}
TryBlock == {"queued", "loop", "write_file", "ext_tree", "ext_file"}

\* ArvPutCollectionWriter.flush_data: the superclass sends the buffered bytes,
\* then "self._data_buffer_len < start_buffer_len" reads a name that is not
\* defined (the local is called bytes_buffered): NameError; bytes_written
\* += ... and report_progress() are never reached.
flush_data(p) ==
    /\ proc[p].pc \in FlushPoints /\ frames[p] = <<>>
    /\ hist' = [hist EXCEPT ![p].confirmed = @ + writer[p].data_buffer_len]
    /\ writer' = [writer EXCEPT ![p].data_buffer_len = 0]
    /\ proc' = [proc EXCEPT ![p].err = "NameError",
                  ![p].pc = IF proc[p].pc \in TryBlock THEN "except" ELSE "uncaught"]
    /\ UNCHANGED <<inv, env, paths, fsvars, cache_file, frames, runs>>

\* Any other exception out of the external writer or the API call.
writer_error(p) ==
    /\ proc[p].pc \in {"queued", "ext_tree", "ext_file", "output"} /\ frames[p] = <<>>
    /\ proc' = [proc EXCEPT ![p].err = "WriterError",
                  ![p].pc = IF proc[p].pc \in TryBlock THEN "except" ELSE "uncaught"]
    /\ UNCHANGED <<inv, env, paths, fsvars, cache_file, frames, writer, hist, runs>>

\* The except clause without writer.cache_state(): the failure is re-raised
\* with no checkpoint.
main_except_nosave(p) ==
    /\ InMain(p, "except")
    /\ Goto(p, "raise")
    /\ UNCHANGED <<inv, env, paths, fsvars, cache_file, frames, writer, hist, runs>>

\* except Exception: writer.cache_state(), which is state = self.dump_state(),
\* transformed, and self.cache.save(state) ...
main_except(p) ==
    /\ InMain(p, "except")
    /\ frames' = [frames EXCEPT ![p] = <<NewFrame(p, FALSE)>>]
    /\ Did(p, "save")
    /\ Goto(p, "raise")
    /\ UNCHANGED <<inv, env, paths, fsvars, cache_file, writer, runs>>

\* ... save has returned to cache_state and that to the except clause ...
save_return(p) ==
    /\ InSave(p, "done") /\ ~Top(p).handler
    /\ frames' = [frames EXCEPT ![p] = <<>>]
    /\ UNCHANGED <<inv, env, paths, fsvars, proc, cache_file, writer, hist, runs>>

\* ... raise: the exception of the write loop leaves main().
main_raise(p) ==
    /\ InMain(p, "raise")
    /\ EndProcess(p, 1, proc[p].err, TRUE)

\* A save the signal handler cuts short never continues: the handler ends
\* in sys.exit.  Its temp file, descriptor and buffer stay until the exit.
Interrupted(fs) ==
    [k \in 1..Len(fs) |-> [fs[k] EXCEPT !.pc = "interrupted", !.data = <<>>,
                                         !.failed = FALSE]]

\* signal_handler(sigcode, frame): writer.cache_state() ...
signal_handler(p, sig) ==
    /\ Running(p) /\ proc[p].handlers = "ours"
    /\ Len(frames[p]) < env.nest
    /\ frames' = [frames EXCEPT ![p] = Append(Interrupted(@), NewFrame(p, TRUE))]
    /\ proc' = [proc EXCEPT ![p].pc = "signal", ![p].sigcode = sig]
    /\ Did(p, "save")
    /\ UNCHANGED <<inv, env, paths, fsvars, cache_file, writer, runs>>

\* ... sys.exit(-sigcode): the exit status is the low byte of -sigcode.
signal_exit(p) ==
    /\ InSave(p, "done") /\ Top(p).handler
    /\ EndProcess(p, 256 - proc[p].sigcode, "SystemExit", TRUE)

\* main() going from the loop straight to the clean-up, the output step
\* left out.
main_output_skips(p) ==
    /\ InMain(p, "loop") /\ writer[p].idx > Len(paths)
    /\ Goto(p, "destroy")
    /\ UNCHANGED <<inv, env, paths, fsvars, cache_file, frames, writer, hist, runs>>

\* The loop is over: stream / raw / collection output.
main_output(p) ==
    /\ InMain(p, "loop") /\ writer[p].idx > Len(paths)
    /\ Goto(p, "output")
    /\ UNCHANGED <<inv, env, paths, fsvars, cache_file, frames, writer, hist, runs>>

\* The output succeeded; for sigcode, orig_handler in
\* orig_signal_handlers.items(): signal.signal(sigcode, orig_handler).
restore_handlers(p) ==
    /\ InMain(p, "output")
    /\ proc' = [proc EXCEPT ![p].pc = "destroy", ![p].handlers = "orig"]
    /\ UNCHANGED <<inv, env, paths, fsvars, cache_file, frames, writer, hist, runs>>

\* ------------------------------------------------------ specification
\* The behaviours explored: the processes racing for the key, one invocation
\* each; one process run again and again after interruptions and kills; one
\* invocation whose system calls fail, that is killed and that takes signals
\* inside signal handlers; one invocation that finds a cache file this
\* version of the program did not write.
NoFiles == <<>>
Scenarios ==
    { [name |-> "concurrent", procs |-> Procs, runs |-> Cardinality(Procs),
       faults |-> FALSE, kills |-> FALSE, nest |-> 1, signals |-> {2},
       args |-> {<<"a.txt">>}, files |-> {NoFiles}],
      [name |-> "rerun", procs |-> {1}, runs |-> MaxRuns,
       faults |-> FALSE, kills |-> TRUE, nest |-> 1, signals |-> {15},
       args |-> ArgLists, files |-> {NoFiles}],
      [name |-> "faults", procs |-> {1}, runs |-> 1,
       faults |-> TRUE, kills |-> TRUE, nest |-> MaxNest, signals |-> CAUGHT_SIGNALS,
       args |-> {<<"caf(e9).txt">>}, files |-> {NoFiles}],
      [name |-> "foreign", procs |-> {1}, runs |-> 1,
       faults |-> FALSE, kills |-> FALSE, nest |-> 1, signals |-> {3},
       args |-> {<<"data", "a.txt">>}, files |-> ForeignFiles] }

\* main(): ResumeCache.make_path(args) for invocation i.
derive_key(i) ==
    /\ inv.key[i] = NoKey
    /\ inv' = [inv EXCEPT !.key[i] = make_path(inv.args[i])]
    /\ UNCHANGED <<env, paths, fsvars, proc, cache_file, frames, writer, hist, runs>>

Init ==
    /\ inv = NoInvocations
    /\ env \in Scenarios
    /\ paths \in env.args
    /\ \E c \in env.files :
          /\ pathIno = (IF c = NoFiles THEN 0 ELSE 1)
          /\ disk = [i \in Ino |-> IF i = 1 THEN c ELSE <<>>]
    /\ intended = disk
    /\ tmpNames = {}
    /\ lockOwner = [i \in Ino |-> 0]
    /\ proc = [p \in Procs |-> NewProc]
    /\ cache_file = [p \in Procs |-> NoFile]
    /\ frames = [p \in Procs |-> <<>>]
    /\ writer = [p \in Procs |-> NewWriter]
    /\ hist = [p \in Procs |-> NewHist]
    /\ runs = 0

Next ==
    \E p \in Procs :
        \/ main_start(p)
        \/ cache_open(p)
        \/ cache_lock(p)
        \/ main_conflict(p)
        \/ destroy_unlink(p)
        \/ destroy_close(p)
        \/ main_return(p)
        \/ main_uncaught(p)
        \/ crash(p)
        \/ from_cache(p)
        \/ install_handlers(p)
        \/ do_queued_work(p)
        \/ write_directory_tree(p)
        \/ start_new_stream(p)
        \/ write_file(p)
        \/ ext_done(p)
        \/ flush_data(p)
        \/ writer_error(p)
        \/ main_except(p)
        \/ save_mkstemp(p)
        \/ save_lock(p)
        \/ save_write(p)
        \/ save_rename(p)
        \/ save_swap(p)
        \/ save_cleanup(p)
        \/ save_return(p)
        \/ main_raise(p)
        \/ \E sig \in env.signals : signal_handler(p, sig)
        \/ signal_exit(p)
        \/ main_output(p)
        \/ restore_handlers(p)

Spec == Init /\ [][Next]_vars

\* Key derivation alone: two command lines, each key derived once.
InitKey ==
    /\ inv \in [args : [1..2 -> Arguments], key : {[i \in 1..2 |-> NoKey]}]
    /\ env = CHOOSE e \in Scenarios : e.name = "concurrent"
    /\ paths = <<"a.txt">>
    /\ pathIno = 0
    /\ disk = [i \in Ino |-> <<>>]
    /\ intended = disk
    /\ tmpNames = {}
    /\ lockOwner = [i \in Ino |-> 0]
    /\ proc = [p \in Procs |-> NewProc]
    /\ cache_file = [p \in Procs |-> NoFile]
    /\ frames = [p \in Procs |-> <<>>]
    /\ writer = [p \in Procs |-> NewWriter]
    /\ hist = [p \in Procs |-> NewHist]
    /\ runs = 0

NextKey == \E i \in 1..2 : derive_key(i)

SpecKey == InitKey /\ [][NextKey]_vars

\* ------------------------------------------------------------ claims
\* p has completed acquire (and restart, when asked for) and has neither
\* begun destroy nor exited.
Acquired(p) ==
    /\ Running(p)
    /\ proc[p].pc \notin {"open", "lock", "conflict", "restart", "restart_close",
                          "destroy_close", "return"}

\* C1: for one cache key, under every interleaving of the steps of acquire,
\* save, destroy and restart, at most one process at a time is a live
\* writer, i.e. has completed acquire and not yet destroyed or exited.
C1_SingleLiveWriter ==
    \A p, q \in Procs : Acquired(p) /\ Acquired(q) => p = q

\* C2: whenever a load of the cache path is possible (the file exists and no
\* process holds its lock), the file holds a complete state, the one handed
\* to the save that put it there (or nothing, for a fresh file): whatever
\* stopped a save, a partial state is never what a later load reads.
C2_NoTornState ==
    pathIno # 0 /\ lockOwner[pathIno] = 0 => disk[pathIno] = intended[pathIno]

\* C3: seen_inputs never contains the same (kind, source, dest) triple twice:
\* every triple is accepted once, at its first occurrence, and every repeat
\* is skipped.
C3_NoDuplicateTriple ==
    \A p \in Procs : \A i, j \in 1..Len(writer[p].seen_inputs) :
        KeyText(writer[p].seen_inputs[i]) = KeyText(writer[p].seen_inputs[j]) => i = j

\* C4: an input goes to the external writer only when record_new_input
\* accepted (appended) its triple, and in a restored session no input whose
\* triple was in seen_inputs at resume time goes to it again.
C4_NoRestream ==
    \A p \in Procs : \A i \in 1..Len(hist[p].handed) :
        /\ \E j \in 1..Len(writer[p].seen_inputs) :
              writer[p].seen_inputs[j] = hist[p].handed[i]
        /\ \A j \in 1..Len(hist[p].resumed.seen_inputs) :
              KeyText(hist[p].resumed.seen_inputs[j]) # KeyText(hist[p].handed[i])

\* C5: bytes_written is what the session had at resume time plus every byte
\* flush_data has sent to the backend since, no more (buffered bytes are not
\* counted) and no less (each flush of n bytes adds exactly n).
C5_BytesWrittenCountsFlushes ==
    \A p \in Procs :
        writer[p].bytes_written = hist[p].resumed.bytes_written + hist[p].confirmed

\* C6: from_cache never fails: whatever the cache file holds, no error of
\* from_cache reaches main().
C6_FromCacheNeverFails ==
    \A p \in Procs : ~(proc[p].pc = "uncaught" /\ proc[p].err = "KeyError")

\* What inode i holds once the stdio buffers written for it are flushed.
Committed(i) ==
    LET qs == {q \in Procs : BufOf(q, i) # <<>>}
    IN  IF qs = {} THEN disk[i] ELSE disk[i] \o BufOf(CHOOSE q \in qs : TRUE, i)

\* C7: when a caught signal arrives, cache_state() runs to completion before
\* the exit, the exit status is derived from the signal number, and when the
\* handler's checkpoint was committed and no invocation asked for a restart
\* the cache path still names the file with that checkpoint at the exit,
\* for a later invocation to restore from.
C7_CheckpointThenExit ==
    \A p \in Procs :
        /\ proc[p].pc = "exited" /\ proc[p].err = "SystemExit"
              => proc[p].status \in {256 - sig : sig \in CAUGHT_SIGNALS}
        /\ /\ InSave(p, "done") /\ Top(p).handler /\ ~Top(p).failed
           /\ \A q \in Procs : proc[q].resume
           => pathIno # 0 /\ Committed(pathIno) = Top(p).data

\* C8: a process that attempts the lock while another process is a live
\* writer of the key, holding the lock of the file at the cache path, gets
\* Conflict at once, and after Conflict it only exits, with status 1, leaving
\* the path, the file's contents and the other process's locks as they were.
C8_Step(p) ==
    /\ /\ At(p, "lock")
       /\ \E q \in Procs \ {p} :
             Acquired(q) /\ pathIno # 0 /\ lockOwner[pathIno] = q
       /\ proc'[p] # proc[p]
       => proc'[p].pc = "conflict" /\ proc'[p].err = "Conflict"
    /\ At(p, "conflict") /\ proc'[p] # proc[p]
       => /\ proc'[p].pc = "exited" /\ proc'[p].status = 1
          /\ pathIno' = pathIno
          /\ pathIno # 0 => disk'[pathIno] = disk[pathIno]
          /\ \A i \in Ino : lockOwner[i] # p => lockOwner'[i] = lockOwner[i]

C8_ConflictFailsFast == [][\A p \in Procs : C8_Step(p)]_vars

C9_Step(p) ==
    LET n == Len(frames[p]) IN
    /\ /\ n > 0 /\ Len(frames'[p]) = n
       /\ frames'[p][n].failed /\ frames'[p] # frames[p]
       => /\ proc'[p] = proc[p]
          /\ frames'[p][n].pc \in {"cleanup", "done"}
          /\ frames'[p][n].pc = "done"
                => frames'[p][n].ino = 0 /\ frames[p][n].ino \notin tmpNames'
          /\ pathIno' = pathIno
          /\ pathIno # 0 => /\ disk'[pathIno] = disk[pathIno]
                            /\ intended'[pathIno] = intended[pathIno]
          /\ cache_file'[p] = cache_file[p]
          /\ lockOwner'[cache_file[p].ino] = lockOwner[cache_file[p].ino]
    /\ /\ n > 0 /\ Len(frames'[p]) < n
       /\ frames[p][n].failed
       => \/ proc'[p] = proc[p]
          \/ proc'[p].pc = "exited" /\ proc'[p].err \in {"SystemExit", "killed"}

C10_HandlersRestored ==
    \A p \in Procs :
        proc[p].pc = "exited" /\ proc[p].err # "killed" => proc[p].handlers = "orig"

\* This step is a step of process p.
PStep(p) == proc'[p] # proc[p] \/ frames'[p] # frames[p]

\* The step delivers a caught signal to p or kills it.
Stopped(p) == proc'[p].pc = "signal" \/ proc'[p].err = "killed"

\* C11: when a step of the write loop fails, the failure goes to the except
\* clause, which first starts a checkpoint save of the current session state
\* and then surfaces the original failure (exit status 1 with that error);
\* nothing on this path removes the cache file.  A signal or a kill that
\* arrives on the way ends the invocation its own way.
C11_Step(p) ==
    /\ /\ proc[p].pc \in TryBlock /\ frames[p] = <<>>
       /\ proc'[p].err \in {"NameError", "WriterError"}
       => proc'[p].pc = "except"
    /\ /\ InMain(p, "except") /\ PStep(p) /\ ~Stopped(p)
       => /\ frames'[p] = <<NewFrame(p, FALSE)>>
          /\ proc'[p] = [proc[p] EXCEPT !.pc = "raise"]
    /\ /\ InMain(p, "raise") /\ PStep(p) /\ ~Stopped(p)
       => /\ proc'[p].pc = "exited" /\ proc'[p].status = 1
          /\ proc'[p].err = proc[p].err
    /\ /\ proc[p].pc \in {"except", "raise"} /\ PStep(p) /\ pathIno # 0
       => pathIno' # 0

C12_Step(p) ==
    /\ /\ proc'[p].pc = "exited" /\ proc[p].pc # "exited" /\ proc'[p].status = 0
       => /\ InMain(p, "return")
          /\ cache_file[p] = NoFile
          /\ \A i \in Ino : lockOwner[i] # p
          /\ "destroy" \in hist[p].did
    /\ /\ proc'[p].pc = "return" /\ proc[p].pc # "return"
       => proc[p].pc = "destroy_close" /\ "destroy" \in hist[p].did
    /\ /\ proc'[p].pc = "destroy_close" /\ proc[p].pc # "destroy_close"
       => proc[p].pc = "destroy"
    /\ /\ proc'[p].pc = "destroy" /\ proc[p].pc # "destroy"
       => proc[p].pc = "output"
    /\ /\ proc'[p].pc = "output" /\ proc[p].pc # "output"
       => proc[p].pc = "loop" /\ writer[p].idx > Len(paths)
    /\ /\ PStep(p) /\ pathIno # 0 /\ pathIno' = 0
       => proc[p].pc \in {"destroy", "restart"}
    /\ /\ proc'[p].pc = "exited" /\ proc[p].pc # "exited" /\ proc'[p].status # 0
       => /\ proc[p].pc \notin {"destroy_close", "return"} \/ proc'[p].err = "killed"
          /\ pathIno' = pathIno

C12_DestroyOnlyOnSuccess == [][\A p \in Procs : C12_Step(p)]_vars

\* C12 as stated: an invocation removes the cache file only in its final
\* destroy, after the write loop and the output step completed.
C12_DestroyOnlyAfterOutput ==
    [][\A p \in Procs : PStep(p) /\ pathIno # 0 /\ pathIno' = 0
                            => proc[p].pc = "destroy"]_vars

\* One invocation has ended with status 0 and another by a signal.
C12_DoneAndInterrupted ==
    \E p \in Procs :
        /\ proc[p].pc = "exited" /\ proc[p].status = 0
        /\ \E q \in Procs : proc[q].pc = "exited" /\ proc[q].err = "SystemExit"

\* C13: a resumed upload (session restored from a checkpoint, every path
\* given once, one unit of data per input) that has completed its loop and
\* its output has bytes_written equal to the total size of its inputs.
C13_ResumeCountsEveryByte ==
    \A p \in Procs :
        /\ InMain(p, "destroy") /\ proc[p].resume
        /\ hist[p].resumed.seen_inputs # <<>>
        /\ \A i, j \in 1..Len(paths) : paths[i] = paths[j] => i = j
        => writer[p].bytes_written = Len(paths)

\* C16: bytes_written never decreases within a session: no step of an
\* invocation lowers it, it is never below the value restored at resume
\* time, and no checkpoint records less than that value.
C16_Step(p) ==
    Running(p) /\ proc[p].pc \notin {"open", "lock", "from_cache"}
       /\ proc'[p].pc # "exited"
       => writer'[p].bytes_written >= writer[p].bytes_written

C16_State(p) ==
    /\ writer[p].bytes_written >= hist[p].resumed.bytes_written
    /\ \A k \in 1..Len(frames[p]) :
          frames[p][k].data # <<>>
             => Field(frames[p][k].data, "bytes_written").n
                   >= hist[p].resumed.bytes_written

C16_BytesWrittenMonotone ==
    /\ [](\A p \in Procs : C16_State(p))
    /\ [][\A p \in Procs : C16_Step(p)]_vars

\* A session restored with bytes_written > 0 has taken a checkpoint.
C16_ResumedAndSaved ==
    \E p \in Procs :
        /\ hist[p].resumed.bytes_written > 0
        /\ InSave(p, "done") /\ ~Top(p).failed

\* C17: destroy leaves no file at the cache path, whether or not one was
\* there (a file already gone is no error), and when it returns the caller
\* has closed its handle and holds no lock.
C17_Step(p) ==
    /\ /\ proc[p].pc \in {"destroy", "restart"} /\ PStep(p) /\ ~Stopped(p)
       => /\ pathIno' = 0
          /\ proc'[p] = [proc[p] EXCEPT !.pc = IF proc[p].pc = "destroy"
                                                THEN "destroy_close"
                                                ELSE "restart_close"]
    /\ /\ proc[p].pc \in {"destroy_close", "restart_close"} /\ PStep(p) /\ ~Stopped(p)
       => /\ proc'[p].pc = (IF proc[p].pc = "destroy_close" THEN "return" ELSE "open")
          /\ proc'[p].err = proc[p].err
          /\ cache_file'[p] = NoFile
          /\ \A i \in Ino : lockOwner'[i] # p
          /\ pathIno' = pathIno

C17_DestroyRemovesAndUnlocks == [][\A p \in Procs : C17_Step(p)]_vars

\* destroy has returned after finding the file already gone.
C17_DestroyedWhenGone ==
    \E p \in Procs : InMain(p, "return") /\ "ENOENT" \in hist[p].did

\* C18: after restart() the process holds the lock on a fresh empty file at
\* the cache path, and the session of an invocation with resume disabled
\* starts with bytes_written = 0 and empty seen_inputs.
C18_RestartIsFresh ==
    \A p \in Procs :
        /\ InMain(p, "from_cache") /\ proc[p].restarted
              => /\ disk[cache_file[p].ino] = <<>>
                 /\ lockOwner[cache_file[p].ino] = p
        /\ InMain(p, "install") /\ ~proc[p].resume
              => writer[p] = NewWriter

\* C19: when a signal triggers a checkpoint, every input this invocation
\* recorded in seen_inputs is one the external writer has taken in: as many
\* units are buffered or flushed as inputs were recorded.
C19_CheckpointAccountsForInputs ==
    \A p \in Procs :
        proc[p].pc = "signal"
           => Len(hist[p].handed) =
                 writer[p].data_buffer_len + hist[p].confirmed
                    - hist[p].resumed.data_buffer_len

\* C20: a save that returns without having committed has removed its temp
\* file, and when an invocation ends (unless it is killed) no temp file of
\* any of its saves, the ones a signal cut short included, is left in the
\* cache directory.
C20_Step(p) ==
    /\ /\ frames'[p] # <<>> /\ Len(frames'[p]) = Len(frames[p])
       /\ frames'[p][Len(frames[p])].pc = "done" /\ Top(p).pc # "done"
       => Top(p).ino \notin tmpNames'
    /\ /\ proc'[p].pc = "exited" /\ proc[p].pc # "exited"
       /\ proc'[p].err # "killed"
       => \A k \in 1..Len(frames[p]) : frames[p][k].ino \notin tmpNames'

C20_NoTempFileLeft == [][\A p \in Procs : C20_Step(p)]_vars

\* The canonical paths of a command line, as a set, and whether one list of
\* paths is a permutation of another.
PathSet(a) == {realpath(a.paths[i]) : i \in 1..Len(a.paths)}
IsPermutation(l, m) ==
    /\ Len(l) = Len(m)
    /\ \E f \in [1..Len(l) -> 1..Len(l)] :
          /\ \A i, j \in 1..Len(l) : f[i] = f[j] => i = j
          /\ \A i \in 1..Len(l) : realpath(m[i]) = realpath(l[f[i]])
Derived == inv.key[1] # NoKey /\ inv.key[2] # NoKey

\* C14: two command lines with the same depth and filename override whose
\* path lists are permutations of each other get the same cache key.
C14_KeyIgnoresOrder ==
    /\ Derived
    /\ IsPermutation(inv.args[1].paths, inv.args[2].paths)
    /\ inv.args[1].max_manifest_depth = inv.args[2].max_manifest_depth
    /\ inv.args[1].filename = inv.args[2].filename
    => inv.key[1] = inv.key[2]

\* Keys were derived for two different paths given in opposite orders.
C14_SwappedPaths ==
    /\ Derived
    /\ Len(inv.args[1].paths) = 2
    /\ realpath(inv.args[1].paths[1]) # realpath(inv.args[1].paths[2])
    /\ inv.args[2].paths = <<inv.args[1].paths[2], inv.args[1].paths[1]>>
    /\ inv.args[1].max_manifest_depth = inv.args[2].max_manifest_depth
    /\ inv.args[1].filename = inv.args[2].filename
    /\ inv.key[1] = inv.key[2]

\* C15: two command lines with the same depth and filename override and
\* different sets of canonical input paths get different cache keys.
C15_DifferentPathsDifferentKey ==
    /\ Derived
    /\ PathSet(inv.args[1]) # PathSet(inv.args[2])
    /\ inv.args[1].max_manifest_depth = inv.args[2].max_manifest_depth
    /\ inv.args[1].filename = inv.args[2].filename
    => inv.key[1] # inv.key[2]

====
